---- MODULE Spec2Model ----
(***************************************************************************)
(* Model of chitchat's reconciliation core (src/chitchat/src/state.rs):    *)
(* NodeState, ClusterState, the digest/delta exchange, GC of tombstones    *)
(* and the reset path.  The DeltaWriter (crate::delta) is not part of the  *)
(* sources at hand; it is modelled from section 4.4 of the specification.  *)
(***************************************************************************)
EXTENDS Naturals, Sequences, FiniteSets, TLC

VARIABLES
    cs,     \* cs[r]: the ClusterState of member r (NodeId -> NodeState)
    net,    \* digests and deltas in flight
    grace,  \* marked_for_deletion_grace_period, uniform across the cluster
    seen,   \* history: seen[r][n][k] = greatest version r ever stored under k of n
    collected, \* history: collected[r][n][k] = greatest version of a tombstone
               \* of k of n that the GC of r removed (0: none)
    call,   \* the last invocation of a reconciliation function, with its inputs
    writes  \* the number of set and mark_for_deletion calls made so far

vars == <<cs, net, grace, seen, collected, call, writes>>

(***************************************************************************)
(* Bounds of the model.                                                    *)
(***************************************************************************)
MaxVersion == 3     \* cap on the local mutations, hence on max_version
MaxGrace == 1       \* grace periods range over 0..MaxGrace
MaxInFlight == 2    \* messages in flight at once
MaxMtu == 20        \* MTU budgets range over 0..MaxMtu
MaxCallVersion == 2 \* versions in the inputs drawn for a single function call
MaxDeltaEntries == 2 \* key-values in a delta drawn for a single apply_delta

NodeIds == {"n1", "n2"}
NodeOrder == <<"n1", "n2">>     \* Ord of NodeId (BTreeMap iteration order)
Keys == {"a", "b"}
KeyOrder == <<"a", "b", "c", "d">>  \* Ord of String keys (BTreeMap order)
Values == {"1"}
Graces == 0..MaxGrace
MTUs == 0..MaxMtu

EmptyMap == [x \in {} |-> x]

Max(a, b) == IF a >= b THEN a ELSE b

Rank(seq, x) == CHOOSE i \in 1..Len(seq) : seq[i] = x

Put(m, k, v) == [x \in DOMAIN m \cup {k} |-> IF x = k THEN v ELSE m[x]]

Restrict(m, S) == [x \in DOMAIN m \cap S |-> m[x]]

(***************************************************************************)
(* VersionedValue and NodeState.                                           *)
(***************************************************************************)
VersionedValue(value, version, marked_for_deletion) ==
    [value |-> value, version |-> version,
     marked_for_deletion |-> marked_for_deletion]

\* last_heartbeat is an Instant; the model keeps which statement wrote it
\* last: "created" (NodeState::default) or "delta" (apply_delta).
NodeState_default ==
    [key_values |-> EmptyMap, last_heartbeat |-> "created", max_version |-> 0]

\* A predicate is given as a function from the node's keys to BOOLEAN.
internal_iter_key_values(ns, predicate) ==
    {k \in DOMAIN ns.key_values : predicate[k]}

iter_key_values(ns, predicate) ==
    {k \in internal_iter_key_values(ns, predicate) :
        ~ns.key_values[k].marked_for_deletion}

iter_stale_key_values(ns, floor_version) ==
    internal_iter_key_values(ns,
        [k \in DOMAIN ns.key_values |->
            ns.key_values[k].version > floor_version])

get_versioned(ns, key) ==
    IF key \in DOMAIN ns.key_values
    THEN [some |-> TRUE, value |-> ns.key_values[key]]
    ELSE [some |-> FALSE]

get(ns, key) ==
    LET r == get_versioned(ns, key)
    IN  IF r.some THEN [some |-> TRUE, value |-> r.value.value]
        ELSE [some |-> FALSE]

\* assert!(version > self.max_version) is the enabling condition.
set_with_version_ok(ns, version) == version > ns.max_version

set_with_version(ns, key, value, version) ==
    [ns EXCEPT !.max_version = version,
               !.key_values = Put(@, key, VersionedValue(value, version, FALSE))]

\* set that writes the entry at max_version + 1 and leaves max_version alone.
set_without_max_version(ns, key, value) ==
    [ns EXCEPT !.key_values =
                   Put(@, key, VersionedValue(value, ns.max_version + 1, FALSE))]

\* set that is a no-op when the key already holds the value, live.
set_unless_same_value(ns, key, value) ==
    IF /\ key \in DOMAIN ns.key_values
       /\ ns.key_values[key].value = value
       /\ ~ns.key_values[key].marked_for_deletion
    THEN ns
    ELSE set_with_version(ns, key, value, ns.max_version + 1)

set(ns, key, value) == set_with_version(ns, key, value, ns.max_version + 1)

\* mark_for_deletion that is a no-op when the key is absent.
mark_for_deletion_present_only(ns, key) ==
    IF key \notin DOMAIN ns.key_values THEN ns
    ELSE [ns EXCEPT
             !.max_version = @ + 1,
             !.key_values[key] = [@ EXCEPT !.marked_for_deletion = TRUE,
                                           !.version = ns.max_version + 1]]

mark_for_deletion(ns, key) ==
    LET new_version == ns.max_version + 1
    IN  [ns EXCEPT
            !.max_version = new_version,
            !.key_values =
                IF key \in DOMAIN @
                THEN [@ EXCEPT ![key] = [@ EXCEPT !.marked_for_deletion = TRUE,
                                                  !.version = new_version]]
                ELSE @]

NodeState_gc_keys_marked_for_deletion(ns, grace_period) ==
    [ns EXCEPT !.key_values =
        Restrict(@, {k \in DOMAIN @ :
            ~(@[k].marked_for_deletion
              /\ @[k].version + grace_period < ns.max_version)})]

(***************************************************************************)
(* Digest and Delta (crate::digest, crate::delta).                         *)
(* A Digest is a map NodeId -> max_version.  A Delta is a set of nodes to  *)
(* reset and a map NodeId -> section, a section being the list of          *)
(* (key, VersionedValue) in the order it was written.                      *)
(***************************************************************************)
KeyValue(key, versioned_value) == [key |-> key, value |-> versioned_value]

Delta_default == [nodes_to_reset |-> {}, node_deltas |-> EmptyMap]

\* Serialized sizes.
DeltaHeaderLen == 2
NodeIdLen == 1
NodeDeltaHeaderLen == 1
KeyValueOverheadLen == 1

KeyValueLen(kv) == Len(kv.key) + Len(kv.value.value) + KeyValueOverheadLen

RECURSIVE SectionLen(_)
SectionLen(kvs) ==
    IF kvs = <<>> THEN 0 ELSE KeyValueLen(Head(kvs)) + SectionLen(Tail(kvs))

RECURSIVE SumOver(_, _)
SumOver(f, S) ==
    IF S = {} THEN 0
    ELSE LET x == CHOOSE y \in S : TRUE IN f[x] + SumOver(f, S \ {x})

\* Size of the Delta on the wire.
serialized_len(delta) ==
    DeltaHeaderLen
    + Cardinality(delta.nodes_to_reset) * NodeIdLen
    + SumOver([n \in DOMAIN delta.node_deltas |->
                  NodeIdLen + NodeDeltaHeaderLen
                  + SectionLen(delta.node_deltas[n])],
              DOMAIN delta.node_deltas)

\* DeltaWriter: the delta under construction, the budget, the bytes used,
\* and the sections in the order they were opened.
DeltaWriter_with_mtu(mtu) ==
    [delta |-> Delta_default, mtu |-> mtu, num_bytes |-> DeltaHeaderLen,
     written |-> <<>>]

DeltaWriter_add_node_to_reset(w, node_id) ==
    [w EXCEPT !.delta.nodes_to_reset = @ \cup {node_id},
              !.num_bytes = @ + NodeIdLen]

\* add_node: [ok |-> the bool returned, w |-> the writer afterwards].
DeltaWriter_add_node(w, node_id) ==
    LET cost == NodeIdLen + NodeDeltaHeaderLen
    IN  IF w.num_bytes + cost > w.mtu
        THEN [ok |-> FALSE, w |-> w]
        ELSE [ok |-> TRUE,
              w |-> [w EXCEPT !.num_bytes = @ + cost,
                              !.delta.node_deltas = Put(@, node_id, <<>>),
                              !.written = Append(@, node_id)]]

\* add_kv appends to the section opened last.
DeltaWriter_add_kv(w, key, versioned_value) ==
    LET kv == KeyValue(key, versioned_value)
        node_id == w.written[Len(w.written)]
    IN  IF w.num_bytes + KeyValueLen(kv) > w.mtu
        THEN [ok |-> FALSE, w |-> w]
        ELSE [ok |-> TRUE,
              w |-> [w EXCEPT !.num_bytes = @ + KeyValueLen(kv),
                              !.delta.node_deltas[node_id] = Append(@, kv)]]

\* Finalize: a section that received no key-value is not part of the Delta.
DeltaWriter_into(w) ==
    [w.delta EXCEPT !.node_deltas =
        Restrict(@, {n \in DOMAIN @ : @[n] # <<>>})]

(***************************************************************************)
(* ClusterState: node_states, a map NodeId -> NodeState.                   *)
(***************************************************************************)
ClusterState_default == EmptyMap

\* self.node_states.entry(node_id).or_default()
node_state_mut(node_states, node_id) ==
    IF node_id \in DOMAIN node_states THEN node_states
    ELSE Put(node_states, node_id, NodeState_default)

node_state(node_states, node_id) ==
    IF node_id \in DOMAIN node_states
    THEN [some |-> TRUE, value |-> node_states[node_id]]
    ELSE [some |-> FALSE]

remove_node(node_states, node_id) ==
    Restrict(node_states, DOMAIN node_states \ {node_id})

\* apply_key_value without the update of max_version.
apply_key_value_no_max(ns, kv) ==
    IF kv.key \in DOMAIN ns.key_values
    THEN IF ns.key_values[kv.key].version >= kv.value.version
         THEN ns
         ELSE [ns EXCEPT !.key_values[kv.key] = kv.value]
    ELSE [ns EXCEPT !.key_values = Put(@, kv.key, kv.value)]

\* apply_key_value with the incoming entry always stored, whatever the
\* version of the stored one.
apply_key_value_overwrite(ns, kv) ==
    [ns EXCEPT !.max_version = Max(@, kv.value.version),
               !.key_values = Put(@, kv.key, kv.value)]

\* apply_key_value counting every incoming entry as one more version, the
\* way a local write does.
apply_key_value_increment(ns, kv) ==
    LET bumped == [ns EXCEPT !.max_version = Max(@, kv.value.version) + 1]
    IN  IF kv.key \in DOMAIN ns.key_values
        THEN IF ns.key_values[kv.key].version >= kv.value.version
             THEN bumped
             ELSE [bumped EXCEPT !.key_values[kv.key] = kv.value]
        ELSE [bumped EXCEPT !.key_values = Put(@, kv.key, kv.value)]

\* apply_key_value with an incoming entry replacing a stored one of the
\* same version.
apply_key_value_replace_on_tie(ns, kv) ==
    LET bumped == [ns EXCEPT !.max_version = Max(@, kv.value.version)]
    IN  IF kv.key \in DOMAIN ns.key_values
        THEN IF ns.key_values[kv.key].version > kv.value.version
             THEN bumped
             ELSE [bumped EXCEPT !.key_values[kv.key] = kv.value]
        ELSE [bumped EXCEPT !.key_values = Put(@, kv.key, kv.value)]

\* The body of apply_delta's inner loop for one (key, versioned_value).
apply_key_value(ns, kv) ==
    LET bumped == [ns EXCEPT !.max_version = Max(@, kv.value.version)]
    IN  IF kv.key \in DOMAIN ns.key_values
        THEN IF ns.key_values[kv.key].version >= kv.value.version
             THEN bumped
             ELSE [bumped EXCEPT !.key_values[kv.key] = kv.value]
        ELSE [bumped EXCEPT !.key_values = Put(@, kv.key, kv.value)]

RECURSIVE apply_key_values(_, _)
apply_key_values(ns, kvs) ==
    IF kvs = <<>> THEN ns
    ELSE apply_key_values(apply_key_value(ns, Head(kvs)), Tail(kvs))

\* The body of apply_delta's outer loop for one (node_id, node_delta).
apply_node_delta(ns, kvs) ==
    [apply_key_values(ns, kvs) EXCEPT !.last_heartbeat = "delta"]

\* apply_delta without the removal of the nodes to reset.
apply_delta_no_retain(node_states, delta) ==
    [n \in DOMAIN node_states \cup DOMAIN delta.node_deltas |->
        IF n \in DOMAIN delta.node_deltas
        THEN apply_node_delta(
                 IF n \in DOMAIN node_states THEN node_states[n]
                 ELSE NodeState_default,
                 delta.node_deltas[n])
        ELSE node_states[n]]

\* self.node_states.retain(..), then the loop over delta.node_deltas.
apply_delta(node_states, delta) ==
    LET retained == Restrict(node_states,
                             DOMAIN node_states \ delta.nodes_to_reset)
    IN  [n \in DOMAIN retained \cup DOMAIN delta.node_deltas |->
            IF n \in DOMAIN delta.node_deltas
            THEN apply_node_delta(
                     IF n \in DOMAIN retained THEN retained[n]
                     ELSE NodeState_default,
                     delta.node_deltas[n])
            ELSE retained[n]]

\* compute_digest without the filter on dead_nodes.
compute_digest_unfiltered(node_states, dead_nodes) ==
    [n \in DOMAIN node_states |-> node_states[n].max_version]

compute_digest(node_states, dead_nodes) ==
    [n \in DOMAIN node_states \ dead_nodes |-> node_states[n].max_version]

\* gc_keys_marked_for_deletion that does not skip the dead nodes.
gc_keys_marked_for_deletion_dead_too(node_states, grace_period, dead_nodes) ==
    [n \in DOMAIN node_states |->
        NodeState_gc_keys_marked_for_deletion(node_states[n], grace_period)]

gc_keys_marked_for_deletion(node_states, grace_period, dead_nodes) ==
    [n \in DOMAIN node_states |->
        IF n \in dead_nodes THEN node_states[n]
        ELSE NodeState_gc_keys_marked_for_deletion(node_states[n],
                                                   grace_period)]

(***************************************************************************)
(* compute_delta: the scuttlebutt reconciliation, scuttle-depth ordering.  *)
(***************************************************************************)
\* digest.node_max_version.get(node_id).cloned().unwrap_or(0)
digest_floor(digest, node_id) ==
    IF node_id \in DOMAIN digest THEN digest[node_id] ELSE 0

\* needs_reset with a non-strict comparison.
needs_reset_non_strict(ns, floor_version, grace_period) ==
    floor_version > 0 /\ floor_version + grace_period <= ns.max_version

\* needs_reset with two more versions of tolerance.
needs_reset_late(ns, floor_version, grace_period) ==
    floor_version > 0 /\ floor_version + grace_period + 2 < ns.max_version

\* The condition of the first loop under which a node is reset.
needs_reset(ns, floor_version, grace_period) ==
    floor_version > 0 /\ floor_version + grace_period < ns.max_version

\* floor_version as the first loop leaves it.
count_floor(ns, floor_version, grace_period) ==
    IF needs_reset(ns, floor_version, grace_period) THEN 0 ELSE floor_version

stale_kv_count(ns, floor_version, grace_period) ==
    Cardinality(iter_stale_key_values(
        ns, count_floor(ns, floor_version, grace_period)))

\* The floor of the digest, never lowered to 0.
write_floor_of_digest(ns, floor_version, grace_period) == floor_version

\* floor_version as the second loop recomputes it.
write_floor(ns, floor_version, grace_period) ==
    IF ns.max_version > floor_version + grace_period THEN 0 ELSE floor_version

\* The stale entries left in key order, as the iterator yields them.
RECURSIVE unsorted_by_version(_, _)
unsorted_by_version(key_values, keys) ==
    IF keys = {} THEN <<>>
    ELSE LET first == CHOOSE k \in keys :
                          \A j \in keys : Rank(KeyOrder, k) <= Rank(KeyOrder, j)
         IN  <<KeyValue(first, key_values[first])>>
             \o unsorted_by_version(key_values, keys \ {first})

\* stale_kvs.sort_unstable_by_key(|(_, record)| record.version): the keys
\* arrive in key order and the sort of a short slice is an insertion sort,
\* so entries of equal version stay in key order.
RECURSIVE sort_unstable_by_version(_, _)
sort_unstable_by_version(key_values, keys) ==
    IF keys = {} THEN <<>>
    ELSE LET before(j, k) ==
                 \/ key_values[j].version < key_values[k].version
                 \/ /\ key_values[j].version = key_values[k].version
                    /\ Rank(KeyOrder, j) <= Rank(KeyOrder, k)
             first == CHOOSE k \in keys : \A j \in keys : before(k, j)
         IN  <<KeyValue(first, key_values[first])>>
             \o sort_unstable_by_version(key_values, keys \ {first})

\* The first loop: the writer after the resets, nodes taken in NodeId order.
RECURSIVE mark_resets(_, _, _, _, _)
mark_resets(w, node_states, digest, grace_period, nodes) ==
    IF nodes = <<>> THEN w
    ELSE LET n == Head(nodes)
             reset == needs_reset(node_states[n], digest_floor(digest, n),
                                  grace_period)
         IN  mark_resets(
                 IF reset THEN DeltaWriter_add_node_to_reset(w, n) ELSE w,
                 node_states, digest, grace_period, Tail(nodes))

\* The nodes of node_states in NodeId order, the dead ones included.
live_nodes_with_dead(node_states, dead_nodes) ==
    SelectSeq(NodeOrder, LAMBDA n : n \in DOMAIN node_states)

\* The live nodes of node_states, in NodeId order.
live_nodes(node_states, dead_nodes) ==
    SelectSeq(NodeOrder,
              LAMBDA n : n \in DOMAIN node_states /\ n \notin dead_nodes)

\* The nodes inserted into NodeSortedByStaleLength, with their stale count.
stale_lengths(node_states, digest, dead_nodes, grace_period) ==
    LET count(n) == stale_kv_count(node_states[n], digest_floor(digest, n),
                                   grace_period)
    IN  [n \in {m \in DOMAIN node_states \ dead_nodes : count(m) > 0} |->
            count(n)]

RECURSIVE Orderings(_)
Orderings(S) ==
    IF S = {} THEN {<<>>}
    ELSE UNION {{<<x>> \o p : p \in Orderings(S \ {x})} : x \in S}

\* The nodes in any order, whatever their stale length.
NodeSortedByStaleLength_any_order(lengths) == Orderings(DOMAIN lengths)

\* NodeSortedByStaleLength::into_iter: greatest stale length first, the
\* nodes of one length shuffled: every order descending by length.
NodeSortedByStaleLength_into_iter(lengths) ==
    {p \in Orderings(DOMAIN lengths) :
        \A i, j \in 1..Len(p) : i < j => lengths[p[i]] >= lengths[p[j]]}

\* The inner loop of the second loop: [ok |-> no add_kv refused, w |-> writer].
RECURSIVE write_kvs(_, _)
write_kvs(w, stale_kvs) ==
    IF stale_kvs = <<>> THEN [ok |-> TRUE, w |-> w]
    ELSE LET r == DeltaWriter_add_kv(w, Head(stale_kvs).key,
                                     Head(stale_kvs).value)
         IN  IF r.ok THEN write_kvs(r.w, Tail(stale_kvs)) ELSE r

\* The entries the second loop collects for a node, sorted.
stale_kvs_of(ns, floor_version, grace_period) ==
    sort_unstable_by_version(
        ns.key_values,
        iter_stale_key_values(ns, write_floor(ns, floor_version,
                                              grace_period)))

\* The second loop over the nodes in the order drawn.
RECURSIVE write_nodes(_, _, _, _, _)
write_nodes(w, node_states, digest, grace_period, order) ==
    IF order = <<>> THEN w
    ELSE LET n == Head(order)
             opened == DeltaWriter_add_node(w, n)
             kvs == stale_kvs_of(node_states[n], digest_floor(digest, n),
                                 grace_period)
             filled == write_kvs(opened.w, kvs)
         IN  IF ~opened.ok THEN w
             ELSE IF ~filled.ok THEN filled.w
             ELSE write_nodes(filled.w, node_states, digest, grace_period,
                              Tail(order))

\* compute_delta for one outcome `order` of the shuffle.
compute_delta(node_states, digest, mtu, dead_nodes, grace_period, order) ==
    LET w0 == DeltaWriter_with_mtu(mtu)
        w1 == mark_resets(w0, node_states, digest, grace_period,
                          live_nodes(node_states, dead_nodes))
        w2 == write_nodes(w1, node_states, digest, grace_period, order)
    IN  DeltaWriter_into(w2)

\* The orders the shuffle can produce for these inputs.
scuttle_orders(node_states, digest, dead_nodes, grace_period) ==
    NodeSortedByStaleLength_into_iter(
        stale_lengths(node_states, digest, dead_nodes, grace_period))

(***************************************************************************)
(* The cluster.  Every member holds a ClusterState.  A writer mutates its  *)
(* own NodeState locally (set, mark_for_deletion).  Any member, a writer   *)
(* included, sends its digest to another member, which answers with        *)
(* compute_delta; apply_delta changes whatever NodeState the delta names,  *)
(* the receiver's own included.  Digests and deltas are delivered with any *)
(* delay and in any order.                                                 *)
(***************************************************************************)
Members == {"n1", "n2"}
Writers == {"n1"}

DigestMsg(src, dst, digest) ==
    [type |-> "digest", src |-> src, dst |-> dst, digest |-> digest]

\* The answer to a digest; `answers` records the digest it was computed for.
DeltaMsg(src, dst, delta, digest) ==
    [type |-> "delta", src |-> src, dst |-> dst, delta |-> delta,
     answers |-> digest]

NoCall == [op |-> "none"]

\* seen after a step that leaves the node_states `after`.
Observe(old_seen, after) ==
    [r \in Members |-> [n \in NodeIds |-> [k \in Keys |->
        IF n \in DOMAIN after[r] /\ k \in DOMAIN after[r][n].key_values
        THEN Max(old_seen[r][n][k], after[r][n].key_values[k].version)
        ELSE old_seen[r][n][k]]]]

\* collected after a GC step from the node_states `before` to `after`.
Collect(old_collected, before, after) ==
    [r \in Members |-> [n \in NodeIds |-> [k \in Keys |->
        IF /\ n \in DOMAIN before[r]
           /\ k \in DOMAIN before[r][n].key_values
           /\ k \notin DOMAIN after[r][n].key_values
        THEN Max(old_collected[r][n][k], before[r][n].key_values[k].version)
        ELSE old_collected[r][n][k]]]]

own_max_version(r) ==
    IF r \in DOMAIN cs[r] THEN cs[r][r].max_version ELSE 0

\* The budgets at which the Delta of a cluster with one writer of two keys
\* changes: room for nothing, for one key-value, for the reset marker and
\* one key-value, for two key-values, for the marker and two key-values.
\* Every budget of MTUs yields the Delta of one of them.
OneNodeMtu(resets, kvs) ==
    DeltaHeaderLen + resets * NodeIdLen + NodeIdLen + NodeDeltaHeaderLen
    + kvs * KeyValueLen(KeyValue("a", VersionedValue("1", 1, FALSE)))

ClusterMtus ==
    {m \in MTUs : \/ m = 0
                  \/ \E resets \in 0..1, kvs \in 1..2 :
                         m = OneNodeMtu(resets, kvs)}

Init ==
    /\ cs = [r \in Members |-> ClusterState_default]
    /\ net = {}
    /\ grace \in Graces
    /\ seen = [r \in Members |-> [n \in NodeIds |-> [k \in Keys |-> 0]]]
    /\ collected = [r \in Members |-> [n \in NodeIds |-> [k \in Keys |-> 0]]]
    /\ call = NoCall
    /\ writes = 0

\* cluster_state.node_state_mut(&self_id).set(key, value)
Set(r, key, value) ==
    /\ r \in Writers
    /\ writes < MaxVersion
    /\ LET m == node_state_mut(cs[r], r)
       IN  /\ set_with_version_ok(m[r], m[r].max_version + 1)
           /\ cs' = [cs EXCEPT ![r] = [m EXCEPT ![r] = set(@, key, value)]]
    /\ seen' = Observe(seen, cs')
    /\ writes' = writes + 1
    /\ UNCHANGED <<net, grace, collected, call>>

\* cluster_state.node_state_mut(&self_id).mark_for_deletion(key)
MarkForDeletion(r, key) ==
    /\ r \in Writers
    /\ writes < MaxVersion
    /\ LET m == node_state_mut(cs[r], r)
       IN  cs' = [cs EXCEPT ![r] =
                     [m EXCEPT ![r] = mark_for_deletion(@, key)]]
    /\ seen' = Observe(seen, cs')
    /\ writes' = writes + 1
    /\ UNCHANGED <<net, grace, collected, call>>

Gc(r, dead_nodes) ==
    /\ cs' = [cs EXCEPT ![r] =
                 gc_keys_marked_for_deletion(@, grace, dead_nodes)]
    /\ cs' # cs
    /\ collected' = Collect(collected, cs, cs')
    /\ UNCHANGED <<net, grace, seen, call, writes>>

\* A member drops what it holds of another node.
RemoveNode(r, node_id) ==
    /\ node_id # r
    /\ node_id \in DOMAIN cs[r]
    /\ cs' = [cs EXCEPT ![r] = remove_node(@, node_id)]
    /\ seen' = [seen EXCEPT ![r][node_id] = [k \in Keys |-> 0]]
    /\ collected' = [collected EXCEPT ![r][node_id] = [k \in Keys |-> 0]]
    /\ UNCHANGED <<net, grace, call, writes>>

SendDigest(r, peer, dead_nodes) ==
    /\ peer # r
    /\ Cardinality(net) < MaxInFlight
    /\ net' = net \cup {DigestMsg(r, peer, compute_digest(cs[r], dead_nodes))}
    /\ UNCHANGED <<cs, grace, seen, collected, call, writes>>

ComputeDelta(r, msg, mtu, dead_nodes, order) ==
    /\ msg \in net
    /\ msg.type = "digest"
    /\ msg.dst = r
    /\ order \in scuttle_orders(cs[r], msg.digest, dead_nodes, grace)
    /\ net' = (net \ {msg}) \cup
              {DeltaMsg(r, msg.src,
                        compute_delta(cs[r], msg.digest, mtu, dead_nodes,
                                      grace, order),
                        msg.digest)}
    /\ UNCHANGED <<cs, grace, seen, collected, call, writes>>

ApplyDelta(r, msg) ==
    /\ msg \in net
    /\ msg.type = "delta"
    /\ msg.dst = r
    /\ cs' = [cs EXCEPT ![r] = apply_delta(@, msg.delta)]
    /\ net' = net \ {msg}
    /\ seen' = Observe(seen, cs')
    /\ UNCHANGED <<grace, collected, call, writes>>

Next ==
    \/ \E r \in Members, key \in Keys, value \in Values : Set(r, key, value)
    \/ \E r \in Members, key \in Keys : MarkForDeletion(r, key)
    \/ \E r \in Members : \E dead_nodes \in SUBSET DOMAIN cs[r] :
           Gc(r, dead_nodes)
    \/ \E r \in Members, node_id \in NodeIds : RemoveNode(r, node_id)
    \/ \E r \in Members, peer \in Members :
           \E dead_nodes \in SUBSET DOMAIN cs[r] :
               SendDigest(r, peer, dead_nodes)
    \/ \E r \in Members, msg \in {m \in net : m.type = "digest"},
          mtu \in ClusterMtus :
           \E dead_nodes \in SUBSET DOMAIN cs[r] :
               \E order \in scuttle_orders(cs[r], msg.digest, dead_nodes,
                                           grace) :
                   ComputeDelta(r, msg, mtu, dead_nodes, order)
    \/ \E r \in Members, msg \in net : ApplyDelta(r, msg)

Spec == Init /\ [][Next]_vars

(***************************************************************************)
(* Single calls of compute_delta and apply_delta on inputs drawn from      *)
(* bounded sets.  The NodeStates drawn are those a member can hold: every  *)
(* version is at most max_version and a tombstone has a version of at      *)
(* least 2 (mark_for_deletion follows a set).  Two keys may share a        *)
(* version: an owner reset by apply_delta assigns a version again.         *)
(***************************************************************************)
CallVersionedValues ==
    {vv \in [value : Values, version : 1..MaxCallVersion,
             marked_for_deletion : BOOLEAN] :
        vv.marked_for_deletion => vv.version >= 2}

CallKeyValues == UNION {[S -> CallVersionedValues] : S \in SUBSET Keys}

CallNodeStates ==
    {ns \in [key_values : CallKeyValues, last_heartbeat : {"created"},
             max_version : 0..MaxCallVersion] :
        \A k \in DOMAIN ns.key_values :
            ns.key_values[k].version <= ns.max_version}

CallClusterStates == UNION {[S -> CallNodeStates] : S \in SUBSET NodeIds}

CallDigests == UNION {[S -> 0..MaxCallVersion] : S \in SUBSET NodeIds}

Idle ==
    /\ cs = [r \in Members |-> ClusterState_default]
    /\ net = {}
    /\ writes = 0
    /\ seen = [r \in Members |-> [n \in NodeIds |-> [k \in Keys |-> 0]]]
    /\ collected = [r \in Members |-> [n \in NodeIds |-> [k \in Keys |-> 0]]]

InitDelta ==
    /\ Idle
    /\ grace \in Graces
    /\ call \in [op : {"input"}, node_states : CallClusterStates,
                  digest : CallDigests]

CallComputeDelta(mtu, dead_nodes, order) ==
    /\ call.op = "input"
    /\ order \in scuttle_orders(call.node_states, call.digest, dead_nodes,
                                 grace)
    /\ call' = [op |-> "compute_delta",
                node_states |-> call.node_states,
                digest |-> call.digest,
                mtu |-> mtu,
                dead_nodes |-> dead_nodes,
                order |-> order,
                delta |-> compute_delta(call.node_states, call.digest, mtu,
                                        dead_nodes, grace, order)]
    /\ UNCHANGED <<cs, net, grace, seen, collected, writes>>

NextDelta ==
    /\ call.op = "input"
    /\ \E dead_nodes \in SUBSET DOMAIN call.node_states :
           \E order \in scuttle_orders(call.node_states, call.digest,
                                       dead_nodes, grace) :
               \E mtu \in MTUs : CallComputeDelta(mtu, dead_nodes, order)

SpecDelta == InitDelta /\ [][NextDelta]_vars

\* The deltas drawn for apply_delta: any nodes to reset, sections of
\* distinct keys in any order of versions.
CallKeyValueEntries ==
    {KeyValue(k, vv) : k \in Keys, vv \in CallVersionedValues}

CallSections ==
    {kvs \in UNION {[1..n -> CallKeyValueEntries] : n \in 1..MaxDeltaEntries} :
        \A i, j \in 1..Len(kvs) : i # j => kvs[i].key # kvs[j].key}

CallDeltas ==
    {d \in [nodes_to_reset : SUBSET NodeIds,
            node_deltas : UNION {[S -> CallSections] : S \in SUBSET NodeIds}] :
        SumOver([n \in DOMAIN d.node_deltas |-> Len(d.node_deltas[n])],
                DOMAIN d.node_deltas) <= MaxDeltaEntries}

InitApply ==
    /\ Idle
    /\ grace = 0
    /\ call \in [op : {"input"}, node_states : CallClusterStates,
                  delta : CallDeltas]

CallApplyDelta ==
    /\ call.op = "input"
    /\ call' = [op |-> "apply_delta",
                node_states |-> call.node_states,
                delta |-> call.delta,
                after |-> apply_delta(call.node_states, call.delta)]
    /\ UNCHANGED <<cs, net, grace, seen, collected, writes>>

NextApply == CallApplyDelta

SpecApply == InitApply /\ [][NextApply]_vars

\* Two deltas applied to one ClusterState in both orders.  Each delta has
\* any set of nodes to reset and at most one section, version-ascending as
\* compute_delta writes it (entries of one version side by side).  The
\* ClusterState holds fewer entries than a delta can.
CallSmallClusterStates ==
    {c \in CallClusterStates :
        SumOver([n \in DOMAIN c |-> Cardinality(DOMAIN c[n].key_values)],
                DOMAIN c) <= MaxDeltaEntries - 1}

CallAscendingDeltas ==
    {d \in CallDeltas :
        /\ Cardinality(DOMAIN d.node_deltas) <= 1
        /\ \A n \in DOMAIN d.node_deltas :
               \A i, j \in 1..Len(d.node_deltas[n]) :
                   i < j => d.node_deltas[n][i].value.version
                                <= d.node_deltas[n][j].value.version}

CallShortDeltas ==
    {d \in CallAscendingDeltas :
        SumOver([n \in DOMAIN d.node_deltas |-> Len(d.node_deltas[n])],
                DOMAIN d.node_deltas) <= MaxDeltaEntries - 1}

\* The two deltas agree on what a node wrote at a version: a key they both
\* carry at the same version has the same entry in both.
CallCoherent(d1, d2) ==
    \A n \in DOMAIN d1.node_deltas \cap DOMAIN d2.node_deltas :
        \A i \in 1..Len(d1.node_deltas[n]), j \in 1..Len(d2.node_deltas[n]) :
            (/\ d1.node_deltas[n][i].key = d2.node_deltas[n][j].key
             /\ d1.node_deltas[n][i].value.version
                    = d2.node_deltas[n][j].value.version)
            => d1.node_deltas[n][i] = d2.node_deltas[n][j]

InitApplyTwo ==
    /\ Idle
    /\ grace = 0
    /\ call \in [op : {"input"}, node_states : CallSmallClusterStates,
                  first : CallAscendingDeltas, second : CallShortDeltas]

CallApplyBothOrders ==
    /\ call.op = "input"
    /\ call' = [op |-> "apply_both_orders",
                node_states |-> call.node_states,
                first |-> call.first,
                second |-> call.second,
                first_then_second |->
                    apply_delta(apply_delta(call.node_states, call.first),
                                call.second),
                second_then_first |->
                    apply_delta(apply_delta(call.node_states, call.second),
                                call.first)]
    /\ UNCHANGED <<cs, net, grace, seen, collected, writes>>

NextApplyTwo == CallApplyBothOrders

SpecApplyTwo == InitApplyTwo /\ [][NextApplyTwo]_vars

(***************************************************************************)
(* Single calls of compute_digest: the ClusterState is drawn from the      *)
(* states a member can hold, dead_nodes is any set of NodeIds (known to    *)
(* the ClusterState or not).                                               *)
(***************************************************************************)
InitDigest ==
    /\ Idle
    /\ grace = 0
    /\ call \in [op : {"input"}, node_states : CallClusterStates]

CallComputeDigest(dead_nodes) ==
    /\ call.op = "input"
    /\ call' = [op |-> "compute_digest",
                node_states |-> call.node_states,
                dead_nodes |-> dead_nodes,
                digest |-> compute_digest(call.node_states, dead_nodes)]
    /\ UNCHANGED <<cs, net, grace, seen, collected, writes>>

NextDigest == \E dead_nodes \in SUBSET NodeIds : CallComputeDigest(dead_nodes)

SpecDigest == InitDigest /\ [][NextDigest]_vars

(***************************************************************************)
(* Single calls of ClusterState::gc_keys_marked_for_deletion.  The         *)
(* NodeStates drawn have versions up to MaxVersion, so that a tombstone    *)
(* can lie below, at and above max_version - grace_period.                 *)
(***************************************************************************)
CallGcVersionedValues ==
    {vv \in [value : Values, version : 1..MaxVersion,
             marked_for_deletion : BOOLEAN] :
        vv.marked_for_deletion => vv.version >= 2}

CallGcKeyValues == UNION {[S -> CallGcVersionedValues] : S \in SUBSET Keys}

CallGcNodeStates ==
    {ns \in [key_values : CallGcKeyValues, last_heartbeat : {"created"},
             max_version : 0..MaxVersion] :
        \A k \in DOMAIN ns.key_values :
            ns.key_values[k].version <= ns.max_version}

CallGcClusterStates == UNION {[S -> CallGcNodeStates] : S \in SUBSET NodeIds}

InitGc ==
    /\ Idle
    /\ grace \in Graces
    /\ call \in [op : {"input"}, node_states : CallGcClusterStates]

CallGc(dead_nodes) ==
    /\ call.op = "input"
    /\ call' = [op |-> "gc",
                node_states |-> call.node_states,
                dead_nodes |-> dead_nodes,
                after |-> gc_keys_marked_for_deletion(call.node_states, grace,
                                                      dead_nodes)]
    /\ UNCHANGED <<cs, net, grace, seen, collected, writes>>

NextGc == \E dead_nodes \in SUBSET NodeIds : CallGc(dead_nodes)

SpecGc == InitGc /\ [][NextGc]_vars

(***************************************************************************)
(* One NodeState under the operations of its owner: starting from          *)
(* NodeState::default, any sequence of set, mark_for_deletion and          *)
(* gc_keys_marked_for_deletion.  call records the last operation with the  *)
(* NodeState before and after it; the NodeState is call.after.             *)
(***************************************************************************)
NodeValues == {"1", "2"}

InitNode ==
    /\ Idle
    /\ grace \in Graces
    /\ call = [op |-> "default", after |-> NodeState_default]

CallSet(key, value) ==
    /\ call.after.max_version < MaxVersion
    /\ set_with_version_ok(call.after, call.after.max_version + 1)
    /\ call' = [op |-> "set", before |-> call.after, key |-> key,
                value |-> value, after |-> set(call.after, key, value)]
    /\ UNCHANGED <<cs, net, grace, seen, collected, writes>>

CallMarkForDeletion(key) ==
    /\ call.after.max_version < MaxVersion
    /\ call' = [op |-> "mark_for_deletion", before |-> call.after,
                key |-> key, after |-> mark_for_deletion(call.after, key)]
    /\ UNCHANGED <<cs, net, grace, seen, collected, writes>>

CallNodeGc ==
    /\ call' = [op |-> "gc", before |-> call.after,
                after |-> NodeState_gc_keys_marked_for_deletion(call.after,
                                                                grace)]
    /\ call'.after # call.after
    /\ UNCHANGED <<cs, net, grace, seen, collected, writes>>

NextNode ==
    \/ \E key \in Keys, value \in NodeValues : CallSet(key, value)
    \/ \E key \in Keys : CallMarkForDeletion(key)
    \/ CallNodeGc

SpecNode == InitNode /\ [][NextNode]_vars

(***************************************************************************)
(* Repeated gossip rounds between a sender and a peer.  The sender first   *)
(* mutates its own NodeState (set, mark_for_deletion); then mutation stops *)
(* and the rounds run under one MTU: the peer computes its digest, the     *)
(* sender answers it with compute_delta, the peer applies the delta, and   *)
(* the next round starts.  The peer starts with no NodeState.  Mutation    *)
(* stops at some point and the transport drives the rounds without end,    *)
(* so the one step of a round that is enabled is taken (weak fairness).    *)
(***************************************************************************)
Sender == "n1"
Peer == "n2"

\* The least MTU that fits the delta header, one node header and one
\* key-value.
MinRoundMtu ==
    DeltaHeaderLen + NodeIdLen + NodeDeltaHeaderLen
    + KeyValueLen(KeyValue("a", VersionedValue("1", 1, FALSE)))

RoundMtus == {m \in MTUs : m >= MinRoundMtu}

InitRound ==
    /\ Idle
    /\ grace \in Graces
    /\ call = [op |-> "mutating"]

RoundSet ==
    /\ call.op = "mutating"
    /\ \E key \in Keys, value \in Values : Set(Sender, key, value)

RoundMarkForDeletion ==
    /\ call.op = "mutating"
    /\ \E key \in Keys : MarkForDeletion(Sender, key)

\* The last local mutation is done; the rounds run under the MTU mtu.
StartRounds(mtu) ==
    /\ call.op = "mutating"
    /\ call' = [op |-> "rounds", mtu |-> mtu]
    /\ UNCHANGED <<cs, net, grace, seen, collected, writes>>

RoundDigest ==
    /\ call.op = "rounds"
    /\ net = {}
    /\ SendDigest(Peer, Sender, {})

RoundDelta ==
    \E msg \in {m \in net : m.type = "digest"} :
        \E order \in scuttle_orders(cs[Sender], msg.digest, {}, grace) :
            ComputeDelta(Sender, msg, call.mtu, {}, order)

RoundApply ==
    \E msg \in {m \in net : m.type = "delta"} : ApplyDelta(Peer, msg)

RoundStep == RoundDigest \/ RoundDelta \/ RoundApply

NextRound ==
    \/ RoundSet
    \/ RoundMarkForDeletion
    \/ \E mtu \in RoundMtus : StartRounds(mtu)
    \/ RoundDigest
    \/ RoundDelta
    \/ RoundApply

SpecRound ==
    /\ InitRound
    /\ [][NextRound]_vars
    /\ WF_vars(\E mtu \in RoundMtus : StartRounds(mtu))
    /\ WF_vars(RoundStep)

(***************************************************************************)
(* A cluster of an owner and two other replicas.  The owner mutates its    *)
(* NodeState; each replica sends its digest to any other member, which     *)
(* answers with compute_delta from what it holds (the owner from its own   *)
(* NodeState, a replica from its copy), under a tight or an ample MTU;     *)
(* digests and deltas are delivered with any delay and in any order, each  *)
(* once.  No member runs the GC or remove_node and no node is dead.        *)
(***************************************************************************)
Owner == "n1"
RelayMembers == {"n1", "n2", "n3"}

\* A tight MTU (room for one node header and one key-value) and an ample one.
RelayMtus == {MinRoundMtu, MaxMtu}

InitRelay ==
    /\ cs = [r \in RelayMembers |-> ClusterState_default]
    /\ net = {}
    /\ grace \in Graces
    /\ seen = [r \in Members |-> [n \in NodeIds |-> [k \in Keys |-> 0]]]
    /\ collected = [r \in Members |-> [n \in NodeIds |-> [k \in Keys |-> 0]]]
    /\ call = NoCall
    /\ writes = 0

RelaySet == \E key \in Keys, value \in Values : Set(Owner, key, value)

RelayMarkForDeletion == \E key \in Keys : MarkForDeletion(Owner, key)

\* The members that gossip with each other: n3 hears of the owner through
\* n2 only.
RelayLinks ==
    {<<"n1", "n2">>, <<"n2", "n1">>, <<"n2", "n3">>, <<"n3", "n2">>}

RelaySendDigest ==
    \E link \in RelayLinks : SendDigest(link[1], link[2], {})

RelayComputeDelta ==
    \E r \in RelayMembers, msg \in {m \in net : m.type = "digest"},
       mtu \in RelayMtus :
        \E order \in scuttle_orders(cs[r], msg.digest, {}, grace) :
            ComputeDelta(r, msg, mtu, {}, order)

RelayApplyDelta ==
    \E r \in RelayMembers, msg \in {m \in net : m.type = "delta"} :
        ApplyDelta(r, msg)

NextRelay ==
    \/ RelaySet
    \/ RelayMarkForDeletion
    \/ RelaySendDigest
    \/ RelayComputeDelta
    \/ RelayApplyDelta

SpecRelay == InitRelay /\ [][NextRelay]_vars

\* The relay cluster with tombstone collection: the owner and the replica n2
\* also run gc_keys_marked_for_deletion on the states they hold.
RelayGc == \E r \in Members : Gc(r, {})

NextRelayGc ==
    \/ RelaySet
    \/ RelayMarkForDeletion
    \/ RelaySendDigest
    \/ RelayComputeDelta
    \/ RelayApplyDelta
    \/ RelayGc

\* With versions up to MaxVersion a tombstone is collectable under the
\* grace period 0 only.
InitRelayGc == InitRelay /\ grace = 0

SpecRelayGc == InitRelayGc /\ [][NextRelayGc]_vars

(***************************************************************************)
(* Properties.                                                             *)
(***************************************************************************)

\* C1: in every reachable state of the cluster, every NodeState held by a
\* member has max_version >= the version of each of its entries.
C1_MaxVersionBoundsEntries ==
    \A r \in Members : \A n \in DOMAIN cs[r] :
        \A k \in DOMAIN cs[r][n].key_values :
            cs[r][n].max_version >= cs[r][n].key_values[k].version

\* A member holds, by apply_delta, a tombstone of another node whose
\* version is below that node's max_version.
C1_Witness ==
    \E r \in Members : \E n \in DOMAIN cs[r] \ {r} :
        /\ cs[r][n].last_heartbeat = "delta"
        /\ \E k \in DOMAIN cs[r][n].key_values :
               /\ cs[r][n].key_values[k].marked_for_deletion
               /\ cs[r][n].key_values[k].version < cs[r][n].max_version

\* C2: whenever a step stores an entry under key k of node n at member r
\* (k becomes present, or its entry changes), the entry's version is
\* strictly greater than every version r stored under k of n before.
C2_StoredVersionsIncrease ==
    [][\A r \in Members : \A n \in DOMAIN cs'[r] :
          \A k \in DOMAIN cs'[r][n].key_values :
              (\/ n \notin DOMAIN cs[r]
               \/ k \notin DOMAIN cs[r][n].key_values
               \/ cs[r][n].key_values[k] # cs'[r][n].key_values[k])
              => cs'[r][n].key_values[k].version > seen[r][n][k]]_vars

\* The greatest element of a non-empty set of numbers.
SetMax(S) == CHOOSE x \in S : \A y \in S : y <= x

\* The NodeState of n the call of apply_delta started from (a fresh one when
\* n was not known), the entries of the section of n for key k, and the
\* versions of the section of n.
CallBefore(n) ==
    IF n \in DOMAIN call.node_states THEN call.node_states[n]
    ELSE NodeState_default

CallIncoming(n, k) ==
    {call.delta.node_deltas[n][i].value :
        i \in {j \in 1..Len(call.delta.node_deltas[n]) :
                  call.delta.node_deltas[n][j].key = k}}

CallIncomingVersions(n) ==
    {call.delta.node_deltas[n][i].value.version :
        i \in 1..Len(call.delta.node_deltas[n])}

CallIncomingKeys(n) ==
    {call.delta.node_deltas[n][i].key :
        i \in 1..Len(call.delta.node_deltas[n])}

\* C3: after apply_delta, every node that has a section and is not reset is
\* known; its keys are the stored keys and the incoming keys; each key holds
\* the stored entry when no incoming version is greater than the stored
\* one, and the incoming entry of greatest version otherwise; max_version
\* is the maximum of its old value and every incoming version.
C3_ApplyKeepsGreatest ==
    call.op = "apply_delta" =>
        \A n \in DOMAIN call.delta.node_deltas \ call.delta.nodes_to_reset :
            /\ n \in DOMAIN call.after
            /\ DOMAIN call.after[n].key_values =
                   DOMAIN CallBefore(n).key_values \cup CallIncomingKeys(n)
            /\ \A k \in DOMAIN call.after[n].key_values :
                   IF /\ k \in DOMAIN CallBefore(n).key_values
                      /\ \A vv \in CallIncoming(n, k) :
                             CallBefore(n).key_values[k].version >= vv.version
                   THEN call.after[n].key_values[k] =
                            CallBefore(n).key_values[k]
                   ELSE /\ call.after[n].key_values[k] \in CallIncoming(n, k)
                        /\ \A vv \in CallIncoming(n, k) :
                               vv.version <= call.after[n].key_values[k].version
            /\ call.after[n].max_version =
                   SetMax({CallBefore(n).max_version}
                          \cup CallIncomingVersions(n))

\* A call applied a section to a known node that is not reset: one incoming
\* entry has the version of the stored entry of its key and differs from it,
\* another is inserted under a key that was not present.
C3_Witness ==
    /\ call.op = "apply_delta"
    /\ \E n \in (DOMAIN call.delta.node_deltas \cap DOMAIN call.node_states)
                   \ call.delta.nodes_to_reset :
           /\ \E k \in DOMAIN call.node_states[n].key_values :
                  \E vv \in CallIncoming(n, k) :
                      /\ vv.version = call.node_states[n].key_values[k].version
                      /\ vv # call.node_states[n].key_values[k]
           /\ \E k \in CallIncomingKeys(n) :
                  k \notin DOMAIN call.node_states[n].key_values

\* C4: after apply_delta, a node to reset that has a section holds exactly
\* the entries of the section and the greatest version of the section as
\* max_version; a node to reset that has no section is not known.
C4_ResetReplaces ==
    call.op = "apply_delta" =>
        \A n \in call.delta.nodes_to_reset :
            IF n \in DOMAIN call.delta.node_deltas
            THEN /\ n \in DOMAIN call.after
                 /\ DOMAIN call.after[n].key_values = CallIncomingKeys(n)
                 /\ \A k \in CallIncomingKeys(n) :
                        CallIncoming(n, k) = {call.after[n].key_values[k]}
                 /\ call.after[n].max_version =
                        SetMax(CallIncomingVersions(n))
            ELSE n \notin DOMAIN call.after

\* A call reset a known node with a section: the node held a key the
\* section does not have, and a max_version above the section's versions.
C4_Witness ==
    /\ call.op = "apply_delta"
    /\ \E n \in call.delta.nodes_to_reset \cap DOMAIN call.delta.node_deltas
                   \cap DOMAIN call.node_states :
           /\ \E k \in DOMAIN call.node_states[n].key_values :
                  k \notin CallIncomingKeys(n)
           /\ call.node_states[n].max_version >
                  SetMax(CallIncomingVersions(n))

\* For a call of compute_delta: the live nodes, the floor of a node (the
\* digest's value, 0 when the node is absent from the digest or is marked
\* for reset in the delta), its stale keys and their number, the section
\* the delta has for it, and the keys of that section.
DeltaCallLive == DOMAIN call.node_states \ call.dead_nodes

DeltaCallFloor(n) ==
    IF n \in DOMAIN call.digest /\ n \notin call.delta.nodes_to_reset
    THEN call.digest[n] ELSE 0

DeltaCallStale(n) ==
    {k \in DOMAIN call.node_states[n].key_values :
        call.node_states[n].key_values[k].version > DeltaCallFloor(n)}

DeltaCallSection(n) ==
    IF n \in DOMAIN call.delta.node_deltas THEN call.delta.node_deltas[n]
    ELSE <<>>

DeltaCallSectionKeys(n) ==
    {DeltaCallSection(n)[i].key : i \in 1..Len(DeltaCallSection(n))}

\* The section of n carries the stored entry of each of its keys, once.
DeltaCallSectionSound(n) ==
    /\ \A i \in 1..Len(DeltaCallSection(n)) :
           /\ DeltaCallSection(n)[i].key
                  \in DOMAIN call.node_states[n].key_values
           /\ DeltaCallSection(n)[i].value =
                  call.node_states[n].key_values[DeltaCallSection(n)[i].key]
    /\ Cardinality(DeltaCallSectionKeys(n)) = Len(DeltaCallSection(n))

\* A budget under which no add_node and no add_kv can be refused.
DeltaCallAmpleMtu ==
    DeltaHeaderLen
    + SumOver([n \in DeltaCallLive |->
                  NodeIdLen + NodeIdLen + NodeDeltaHeaderLen
                  + SumOver([k \in DOMAIN call.node_states[n].key_values |->
                                KeyValueLen(KeyValue(
                                    k, call.node_states[n].key_values[k]))],
                            DOMAIN call.node_states[n].key_values)],
              DeltaCallLive)

\* C5: compute_delta marks a node for reset exactly when the node is known
\* and live, the digest has a floor for it, floor > 0 and
\* floor + grace_period < max_version; this for every MTU.
C5_ResetExactlyWhenFarBehind ==
    call.op = "compute_delta" =>
        \A n \in NodeIds :
            n \in call.delta.nodes_to_reset <=>
                /\ n \in DeltaCallLive
                /\ n \in DOMAIN call.digest
                /\ call.digest[n] > 0
                /\ call.digest[n] + grace < call.node_states[n].max_version

\* A call marked one node for reset and left another one unmarked whose
\* floor is positive and floor + grace_period equals its max_version.
C5_Witness ==
    /\ call.op = "compute_delta"
    /\ call.delta.nodes_to_reset # {}
    /\ \E n \in DeltaCallLive \cap DOMAIN call.digest :
           /\ call.digest[n] > 0
           /\ call.digest[n] + grace = call.node_states[n].max_version
           /\ n \notin call.delta.nodes_to_reset

\* C6: with an MTU under which the writer refuses nothing, the section of
\* each live node holds exactly the node's entries of version > floor, and
\* a node without such an entry has no section and no reset marker.
C6_FullSections ==
    (call.op = "compute_delta" /\ call.mtu >= DeltaCallAmpleMtu) =>
        \A n \in DeltaCallLive :
            /\ DeltaCallSectionSound(n)
            /\ DeltaCallSectionKeys(n) = DeltaCallStale(n)
            /\ DeltaCallStale(n) = {} =>
                   /\ n \notin DOMAIN call.delta.node_deltas
                   /\ n \notin call.delta.nodes_to_reset

\* C7: for every MTU, each section of the delta is strictly ascending in
\* version and holds, with each entry it includes, every stale entry of the
\* node of lower version; applied to the peer's NodeState (max_version =
\* floor), it leaves max_version at the version of its last entry.
C7_SectionIsAscendingPrefix ==
    call.op = "compute_delta" =>
        \A n \in DOMAIN call.delta.node_deltas :
            /\ n \in DeltaCallLive
            /\ DeltaCallSection(n) # <<>>
            /\ DeltaCallSectionSound(n)
            /\ DeltaCallSectionKeys(n) \subseteq DeltaCallStale(n)
            /\ \A i, j \in 1..Len(DeltaCallSection(n)) :
                   i < j => DeltaCallSection(n)[i].value.version
                                < DeltaCallSection(n)[j].value.version
            /\ \A k \in DeltaCallSectionKeys(n) :
                   \A j \in DeltaCallStale(n) :
                       call.node_states[n].key_values[j].version
                           < call.node_states[n].key_values[k].version
                       => j \in DeltaCallSectionKeys(n)
            /\ apply_node_delta(
                   [NodeState_default EXCEPT !.max_version = DeltaCallFloor(n)],
                   DeltaCallSection(n)).max_version =
                   DeltaCallSection(n)[Len(DeltaCallSection(n))].value.version

\* A call wrote a truncated section: the node has a stale entry the section
\* lacks, and that entry is not the one the key order puts last.
C7_Witness ==
    /\ call.op = "compute_delta"
    /\ \E n \in DOMAIN call.delta.node_deltas :
           \E k \in DeltaCallSectionKeys(n) :
               \E j \in DeltaCallStale(n) \ DeltaCallSectionKeys(n) :
                   Rank(KeyOrder, j) < Rank(KeyOrder, k)

\* The position of node n in the order of the call, 0 when it is not in it.
DeltaCallPosition(n) ==
    IF \E i \in 1..Len(call.order) : call.order[i] = n
    THEN Rank(call.order, n) ELSE 0

\* C8: in every delta of compute_delta, when a node M has an entry included
\* and a node N has more stale entries than M, all stale entries of N are
\* included; every node that precedes, in the order drawn, a node that has
\* a section has all its stale entries included, so at most one section is
\* truncated and it is the last one written.
C8_ScuttleDepthOrdering ==
    call.op = "compute_delta" =>
        /\ \A m \in DOMAIN call.delta.node_deltas : \A n \in DeltaCallLive :
               Cardinality(DeltaCallStale(n)) > Cardinality(DeltaCallStale(m))
               => DeltaCallSectionKeys(n) = DeltaCallStale(n)
        /\ \A n \in DOMAIN call.delta.node_deltas :
               /\ DeltaCallPosition(n) > 0
               /\ \A m \in DeltaCallLive :
                      (/\ DeltaCallPosition(m) > 0
                       /\ DeltaCallPosition(m) < DeltaCallPosition(n))
                      => DeltaCallSectionKeys(m) = DeltaCallStale(m)
        /\ Cardinality({n \in DOMAIN call.delta.node_deltas :
                            DeltaCallSectionKeys(n) # DeltaCallStale(n)}) <= 1

\* A call drained the node with two stale entries and truncated or left out
\* the node with one, under a budget too small for both.
C8_Witness ==
    /\ call.op = "compute_delta"
    /\ \E m, n \in DeltaCallLive :
           /\ Cardinality(DeltaCallStale(n)) = 2
           /\ Cardinality(DeltaCallStale(m)) = 1
           /\ Rank(NodeOrder, m) < Rank(NodeOrder, n)
           /\ DeltaCallSectionKeys(n) = DeltaCallStale(n)
           /\ DeltaCallSectionKeys(m) = {}

\* C9: for every MTU that holds at least the delta header, the serialized
\* size of the delta of compute_delta is at most the MTU, and the delta is
\* empty when the MTU holds nothing but the header.
C9_DeltaFitsMtu ==
    (call.op = "compute_delta" /\ call.mtu >= DeltaHeaderLen) =>
        /\ serialized_len(call.delta) <= call.mtu
        /\ call.mtu = DeltaHeaderLen => call.delta = Delta_default

\* C10: when a member applies the delta that compute_delta returned for
\* the digest of its present ClusterState, every node it knew is still known
\* afterwards and no max_version is lower than before.
C10_ApplyIsMonotone ==
    [][\A r \in Members : \A msg \in net :
          (/\ ApplyDelta(r, msg)
           /\ \E dead_nodes \in SUBSET DOMAIN cs[r] :
                  msg.answers = compute_digest(cs[r], dead_nodes))
          => \A n \in DOMAIN cs[r] :
                 /\ n \in DOMAIN cs'[r]
                 /\ cs'[r][n].max_version >= cs[r][n].max_version]_vars

\* Two node_states are the same but for last_heartbeat.
SameNodeStates(x, y) ==
    /\ DOMAIN x = DOMAIN y
    /\ \A n \in DOMAIN x :
           /\ x[n].key_values = y[n].key_values
           /\ x[n].max_version = y[n].max_version

\* C11: applying a delta a second time leaves the node_states apply_delta
\* gave the first time (key_values and max_version of every node).
C11_ApplyIsIdempotent ==
    call.op = "apply_delta" =>
        SameNodeStates(apply_delta(call.after, call.delta), call.after)

\* A call applied a delta that resets a known node, gives it a section, and
\* replaces a stored entry of a node it does not reset.
C11_Witness ==
    /\ call.op = "apply_delta"
    /\ \E n \in call.delta.nodes_to_reset \cap DOMAIN call.node_states :
           n \in DOMAIN call.delta.node_deltas
    /\ \E n \in DOMAIN call.node_states \ call.delta.nodes_to_reset :
           \E k \in DOMAIN call.node_states[n].key_values :
               call.after[n].key_values[k] # call.node_states[n].key_values[k]

\* C12: two version-ascending deltas, resets included, give the same
\* node_states (key_values and max_version of every node) in both orders.
C12_ApplyOrderInsensitive ==
    call.op = "apply_both_orders" =>
        SameNodeStates(call.first_then_second, call.second_then_first)

\* No node that one of the two deltas resets is reset by the other or has a
\* section in the other.
CallResetsApart ==
    /\ call.first.nodes_to_reset
           \cap (call.second.nodes_to_reset
                 \cup DOMAIN call.second.node_deltas) = {}
    /\ call.second.nodes_to_reset
           \cap (call.first.nodes_to_reset
                 \cup DOMAIN call.first.node_deltas) = {}

\* C12, amended: two version-ascending deltas that carry the same entry for
\* a key they both have at the same version give the same node_states in
\* both orders provided no node reset by one of them is reset by the other
\* or has a section in the other.
C12_ApplyOrderInsensitiveApart ==
    (/\ call.op = "apply_both_orders"
     /\ CallCoherent(call.first, call.second)
     /\ CallResetsApart) =>
        SameNodeStates(call.first_then_second, call.second_then_first)

\* Both deltas have a section for a known node that neither resets, with a
\* key in common at different versions, and one of them resets another
\* known node.
C12_Witness ==
    /\ call.op = "apply_both_orders"
    /\ CallCoherent(call.first, call.second)
    /\ CallResetsApart
    /\ call.first.nodes_to_reset \cap DOMAIN call.node_states # {}
    /\ \E n \in DOMAIN call.first.node_deltas
                   \cap DOMAIN call.second.node_deltas
                   \cap DOMAIN call.node_states :
           \E i \in 1..Len(call.first.node_deltas[n]) :
               \E j \in 1..Len(call.second.node_deltas[n]) :
                   /\ call.first.node_deltas[n][i].key
                          = call.second.node_deltas[n][j].key
                   /\ call.first.node_deltas[n][i].value.version
                          # call.second.node_deltas[n][j].value.version

\* C13: when a member applies a delta, a node that is known, is not reset
\* and whose section has no version above the member's max_version of it
\* keeps its key_values.
C13_ObsoleteSectionIsNoOp ==
    [][\A r \in Members : \A msg \in net :
          ApplyDelta(r, msg) =>
              \A n \in (DOMAIN msg.delta.node_deltas \cap DOMAIN cs[r])
                        \ msg.delta.nodes_to_reset :
                  (\A i \in 1..Len(msg.delta.node_deltas[n]) :
                       msg.delta.node_deltas[n][i].value.version
                           <= cs[r][n].max_version)
                  => cs'[r][n].key_values = cs[r][n].key_values]_vars

\* C14: once the GC of member r has removed the tombstone of key k of node n,
\* no later apply_delta at r makes k of n present again with a version not
\* greater than the version of the removed tombstone.
C14_CollectedKeyStaysGone ==
    [][\A r \in Members : \A msg \in net :
          ApplyDelta(r, msg) =>
              \A n \in DOMAIN cs'[r] : \A k \in DOMAIN cs'[r][n].key_values :
                  (/\ collected[r][n][k] > 0
                   /\ \/ n \notin DOMAIN cs[r]
                      \/ k \notin DOMAIN cs[r][n].key_values)
                  => cs'[r][n].key_values[k].version > collected[r][n][k]]_vars

\* The peer holds every entry of every node of the sender (no node is dead).
PeerComplete ==
    \A n \in DOMAIN cs[Sender] : \A k \in DOMAIN cs[Sender][n].key_values :
        /\ n \in DOMAIN cs[Peer]
        /\ k \in DOMAIN cs[Peer][n].key_values
        /\ cs[Peer][n].key_values[k] = cs[Sender][n].key_values[k]

\* Every delta in flight is empty.
DeltasEmpty ==
    \A msg \in net : msg.type = "delta" => msg.delta = Delta_default

\* C15: with no local mutation and an MTU that fits one node header and one
\* key-value, the repeated rounds eventually bring the peer to hold every
\* entry of every node of the sender, and from then on every delta is empty.
C15_RoundsConverge == <>[](PeerComplete /\ DeltasEmpty)

\* C16: the digest compute_digest(dead_nodes) returns has as keys exactly
\* the known NodeIds that are not in dead_nodes, maps each of them to the
\* max_version of its NodeState, and has as many entries as there are known
\* nodes that are not dead.
C16_DigestOfLiveNodes ==
    call.op = "compute_digest" =>
        LET known == DOMAIN call.node_states
            live == {n \in known : n \notin call.dead_nodes}
        IN  /\ \A n \in NodeIds : n \in DOMAIN call.digest <=> n \in live
            /\ \A n \in live :
                   call.digest[n] = call.node_states[n].max_version
            /\ Cardinality(DOMAIN call.digest)
                   = Cardinality(known) - Cardinality(known \cap call.dead_nodes)

\* A digest computed with a known node dead and another known node, of
\* max_version above 0, alive.
C16_Witness ==
    /\ call.op = "compute_digest"
    /\ \E n \in DOMAIN call.node_states : n \in call.dead_nodes
    /\ \E n \in DOMAIN call.digest : call.digest[n] > 0

\* C17: whatever the digest, the MTU and the grace period, a node in
\* dead_nodes is in neither the node_deltas nor the nodes_to_reset of the
\* delta compute_delta returns.
C17_DeadNodesLeftOut ==
    call.op = "compute_delta" =>
        \A n \in call.dead_nodes :
            /\ n \notin DOMAIN call.delta.node_deltas
            /\ n \notin call.delta.nodes_to_reset

\* A call with a dead node whose digest floor would have it reset and
\* written, next to a live node that is reset and has a section.
C17_Witness ==
    /\ call.op = "compute_delta"
    /\ \E n \in call.dead_nodes :
           /\ n \in DOMAIN call.node_states
           /\ needs_reset(call.node_states[n], digest_floor(call.digest, n),
                          grace)
           /\ call.node_states[n].key_values # EmptyMap
    /\ \E n \in DOMAIN call.delta.node_deltas :
           n \in call.delta.nodes_to_reset

\* The keys a NodeState holds.
KeysOf(ns) == DOMAIN ns.key_values

\* C18: set(k, v) increases max_version by exactly 1, stores
\* (v, new max_version, marked_for_deletion = false) under k whatever k held
\* before (nothing, the same value, a tombstone) and leaves the entry of
\* every other key unchanged; on a fresh NodeState the version assigned is 1;
\* get(k) right after it returns v.
C18_SetStoresAtNextVersion ==
    call.op = "set" =>
        /\ call.after.max_version = call.before.max_version + 1
        /\ call.key \in DOMAIN call.after.key_values
        /\ call.after.key_values[call.key]
               = VersionedValue(call.value, call.after.max_version, FALSE)
        /\ \A k \in KeysOf(call.before) \cup KeysOf(call.after) :
               k # call.key =>
                   /\ k \in DOMAIN call.before.key_values
                   /\ k \in DOMAIN call.after.key_values
                   /\ call.after.key_values[k] = call.before.key_values[k]
        /\ call.before = NodeState_default
               => call.after.key_values[call.key].version = 1
        /\ get(call.after, call.key) = [some |-> TRUE, value |-> call.value]

\* A set of the value the key already holds, live, next to another key.
C18_Witness ==
    /\ call.op = "set"
    /\ call.key \in DOMAIN call.before.key_values
    /\ call.before.key_values[call.key].value = call.value
    /\ ~call.before.key_values[call.key].marked_for_deletion
    /\ \E k \in DOMAIN call.before.key_values : k # call.key

\* C19: mark_for_deletion(k) increases max_version by exactly 1; when k is
\* present, its entry keeps its value, is marked for deletion and takes the
\* new max_version as version, and no key is added or removed; when k is
\* absent, key_values is unchanged.
C19_MarkForDeletionBumpsVersion ==
    call.op = "mark_for_deletion" =>
        /\ call.after.max_version = call.before.max_version + 1
        /\ call.key \in DOMAIN call.before.key_values =>
               /\ DOMAIN call.after.key_values = DOMAIN call.before.key_values
               /\ call.after.key_values[call.key]
                      = VersionedValue(
                            call.before.key_values[call.key].value,
                            call.after.max_version, TRUE)
        /\ call.key \notin DOMAIN call.before.key_values =>
               call.after.key_values = call.before.key_values

\* mark_for_deletion of an absent key on a NodeState that holds another key.
C19_Witness ==
    /\ call.op = "mark_for_deletion"
    /\ call.key \notin DOMAIN call.before.key_values
    /\ call.before.key_values # EmptyMap

\* C20: in every reachable NodeState, get(k) returns a value only if k is
\* present and not marked for deletion.
C20_GetHidesTombstones ==
    \A k \in Keys :
        get(call.after, k).some =>
            /\ k \in DOMAIN call.after.key_values
            /\ ~call.after.key_values[k].marked_for_deletion

\* An entry the GC is to remove: a tombstone with
\* version + grace_period < max_version.
CallGcCollectable(ns, k) ==
    /\ ns.key_values[k].marked_for_deletion
    /\ ns.key_values[k].version + grace < ns.max_version

\* C21: gc_keys_marked_for_deletion(grace_period, dead_nodes) removes from
\* every node not in dead_nodes exactly the tombstones with
\* version + grace_period < max_version, keeps every other entry as it is,
\* changes no max_version and leaves the NodeState of every dead node
\* unchanged.
C21_GcRemovesExpiredTombstones ==
    call.op = "gc" =>
        /\ DOMAIN call.after = DOMAIN call.node_states
        /\ \A n \in DOMAIN call.node_states :
               LET before == call.node_states[n]
                   after == call.after[n]
               IN  /\ after.max_version = before.max_version
                   /\ n \in call.dead_nodes => after = before
                   /\ n \notin call.dead_nodes =>
                          /\ DOMAIN after.key_values =
                                 {k \in DOMAIN before.key_values :
                                     ~CallGcCollectable(before, k)}
                          /\ \A k \in DOMAIN after.key_values :
                                 after.key_values[k] = before.key_values[k]

\* A call that removes a tombstone of a live node, keeps a tombstone of it
\* with version + grace_period = max_version, and meets a dead node holding
\* a tombstone that would be removed.
C21_Witness ==
    /\ call.op = "gc"
    /\ \E n \in DOMAIN call.node_states \ call.dead_nodes :
           /\ \E k \in DOMAIN call.node_states[n].key_values :
                  k \notin DOMAIN call.after[n].key_values
           /\ \E k \in DOMAIN call.after[n].key_values :
                  /\ call.after[n].key_values[k].marked_for_deletion
                  /\ call.after[n].key_values[k].version + grace
                         = call.after[n].max_version
    /\ \E n \in DOMAIN call.node_states \cap call.dead_nodes :
           \E k \in DOMAIN call.node_states[n].key_values :
               CallGcCollectable(call.node_states[n], k)

\* C22: for every MTU, every node in the nodes_to_reset of the delta that
\* compute_delta returns has a section in that delta, and the section holds
\* every entry the node currently has.
C22_ResetCarriesFullState ==
    call.op = "compute_delta" =>
        \A n \in call.delta.nodes_to_reset :
            /\ n \in DOMAIN call.delta.node_deltas
            /\ DeltaCallSectionSound(n)
            /\ DeltaCallSectionKeys(n) = DOMAIN call.node_states[n].key_values

\* C23: at every replica R that knows the owner, each key the owner
\* currently stores at a version v not above R's max_version for the owner
\* is stored by R at version v.
C23_DigestIsSound ==
    \A r \in RelayMembers \ {Owner} :
        (Owner \in DOMAIN cs[r] /\ Owner \in DOMAIN cs[Owner]) =>
            \A k \in DOMAIN cs[Owner][Owner].key_values :
                cs[Owner][Owner].key_values[k].version
                    <= cs[r][Owner].max_version
                => /\ k \in DOMAIN cs[r][Owner].key_values
                   /\ cs[r][Owner].key_values[k].version
                          = cs[Owner][Owner].key_values[k].version

\* The greatest version of a tombstone of node n that the GC of member r
\* removed (0: none).
CollectedMax(r, n) ==
    SetMax({collected[r][n][k] : k \in Keys})

\* C24: when the GC of a member has removed from its NodeState of n a
\* tombstone of version t, every later compute_delta of that member, for a
\* digest whose floor f for n satisfies 0 < f < t and with n known and not
\* dead, puts n in nodes_to_reset.
C24_ResetCoversCollected ==
    [][\A r \in Members : \A msg \in {m \in net : m.type = "digest"} :
          \A n \in DOMAIN cs[r] :
              (/\ msg.dst = r
               /\ 0 < digest_floor(msg.digest, n)
               /\ digest_floor(msg.digest, n) < CollectedMax(r, n))
              => \A mtu \in MTUs :
                     \A dead_nodes \in SUBSET (DOMAIN cs[r] \ {n}) :
                         \A order \in scuttle_orders(cs[r], msg.digest,
                                                     dead_nodes, grace) :
                             ComputeDelta(r, msg, mtu, dead_nodes, order)
                             => n \in compute_delta(
                                         cs[r], msg.digest, mtu, dead_nodes,
                                         grace, order).nodes_to_reset]_vars

\* A delta in flight that resets a node for a digest floor below the version
\* of a tombstone the sender's GC removed before: the section passes that
\* version without the tombstone's key.
C24_Witness ==
    \E msg \in {m \in net : m.type = "delta"} :
        \E n \in msg.delta.nodes_to_reset \cap DOMAIN msg.delta.node_deltas :
            \E k \in Keys :
                /\ 0 < digest_floor(msg.answers, n)
                /\ digest_floor(msg.answers, n) < collected[msg.src][n][k]
                /\ \A i \in 1..Len(msg.delta.node_deltas[n]) :
                       msg.delta.node_deltas[n][i].key # k
                /\ \E i \in 1..Len(msg.delta.node_deltas[n]) :
                       msg.delta.node_deltas[n][i].value.version
                           > collected[msg.src][n][k]

\* C25: for every cluster state, digest, dead set, grace period and MTU, the
\* floor the write loop of compute_delta recomputes for a node selects the
\* same entries as the floor the first loop counted them with, so every
\* node enqueued (stale count > 0) yields at least one entry and
\* assert!(!stale_kvs.is_empty()) holds.
C25_StaleKvsNotEmpty ==
    call.op = "compute_delta" =>
        /\ \A n \in DeltaCallLive :
               iter_stale_key_values(
                   call.node_states[n],
                   write_floor(call.node_states[n],
                               digest_floor(call.digest, n), grace))
               = iter_stale_key_values(
                     call.node_states[n],
                     count_floor(call.node_states[n],
                                 digest_floor(call.digest, n), grace))
        /\ \A i \in 1..Len(call.order) :
               stale_kvs_of(call.node_states[call.order[i]],
                            digest_floor(call.digest, call.order[i]),
                            grace) # <<>>

\* A call that enqueues a node the digest does not know (floor 0, lowered to
\* 0 again by the write loop) and a node that is reset.
C25_Witness ==
    /\ call.op = "compute_delta"
    /\ \E i, j \in 1..Len(call.order) :
           /\ digest_floor(call.digest, call.order[i]) = 0
           /\ call.node_states[call.order[i]].max_version > grace
           /\ call.order[j] \in call.delta.nodes_to_reset

\* C26: in every NodeState a member holds, the owner's own (built by set and
\* mark_for_deletion) and every replica's copy (built by apply_delta from
\* the deltas of compute_delta, resets included), no two distinct keys carry
\* the same version, so the version sort of compute_delta is strict: the
\* sorted entries have strictly increasing versions.
C26_VersionsAreDistinct ==
    \A r \in DOMAIN cs : \A n \in DOMAIN cs[r] :
        LET key_values == cs[r][n].key_values
            sorted == sort_unstable_by_version(key_values, DOMAIN key_values)
        IN  /\ \A j, k \in DOMAIN key_values :
                   j # k => key_values[j].version # key_values[k].version
            /\ \A i \in 1..(Len(sorted) - 1) :
                   sorted[i].value.version < sorted[i + 1].value.version

\* A replica holds two keys of the owner, behind the owner on one of them,
\* while a reset of the owner travels to it with a sorted section of two
\* entries, the later one a tombstone.
C26_Witness ==
    \E r \in RelayMembers \ {Owner} :
        /\ Owner \in DOMAIN cs[r] /\ Owner \in DOMAIN cs[Owner]
        /\ DOMAIN cs[r][Owner].key_values = Keys
        /\ DOMAIN cs[Owner][Owner].key_values = Keys
        /\ \E k \in Keys : cs[r][Owner].key_values[k].version
                               < cs[Owner][Owner].key_values[k].version
        /\ \E msg \in net : /\ msg.type = "delta" /\ msg.dst = r
                             /\ Owner \in msg.delta.nodes_to_reset
                             /\ Owner \in DOMAIN msg.delta.node_deltas
                             /\ Len(msg.delta.node_deltas[Owner]) = 2
                             /\ msg.delta.node_deltas[Owner][2].value
                                    .marked_for_deletion

====
